---- MODULE Spec2Model ----
(***************************************************************************)
(* go-pythainlp: the lifecycle manager of the PyThaiNLP sidecar            *)
(* (src/docker.go), its HTTP transport client and the operation facades    *)
(* (src/transliterate.go, src/unnamed/part_000, src/unnamed/part_001).     *)
(*                                                                         *)
(* Goroutines are the processes of the model.  A call is cut into steps at *)
(* the points where it blocks (a lock) or talks to something outside the   *)
(* process (the docker handle, an exec in the container, an HTTP request). *)
(* The docker handle (dockerutil), the container, the python server and    *)
(* the caller's context are the environment; what they may answer is a     *)
(* nondeterministic choice.                                                *)
(***************************************************************************)
EXTENDS Integers, Sequences, FiniteSets, TLC

VARIABLES
    serverPy,      \* the embedded asset service/server.py, a sequence of tokens
    mstate,        \* per manager: "none" (not constructed), "live", "closed"
    servicePort,   \* PyThaiNLPManager.servicePort
    serviceReady,  \* PyThaiNLPManager.serviceReady
    muWriter,      \* PyThaiNLPManager.mu: the goroutine holding it exclusively, or 0
    muReaders,     \* PyThaiNLPManager.mu: the goroutines holding it shared
    container,     \* the manager's container: "absent", "running", "stopped"
    server,        \* the python server in the container: "down", "starting", "ready"
    listenPort,    \* the port the python server listens on (0: none or a wrong one)
    scriptFile,    \* /workspace/service/server.py inside the container
    lastWriter,    \* history: the goroutine that wrote serviceReady last, or 0
    okSince,       \* history: an Init/InitRecreate returned nil and no Stop/Close returned since
    pc,            \* per goroutine: where it is in its call
    kind,          \* per goroutine: the function it is in
    cmgr,          \* per goroutine: the manager the call is on
    ctxDone,       \* per goroutine: the call's context has been cancelled
    elapsed,       \* per goroutine: ms since waitForService took its deadline
    attempt,       \* per goroutine: waitForService's attempt counter
    readyPolls,    \* history: health requests of the current Init that answered "ready"
    cancelAt,      \* history: elapsed when the context was cancelled (-1: it was not)
    latePolls,     \* history: health polls of the current wait that ended after the cancellation
    trail,         \* history: the startup steps the current call has carried out, in order
    rdy,           \* per goroutine: what its IsReady() returned ("unknown" before)
    reqs,          \* history: HTTP requests the current facade call has issued
    unmarshalled,  \* history: the current call unmarshalled the envelope's data
    resp,          \* per goroutine: the HTTP response the call received
    ret,           \* per goroutine: what the call returned
    instance,      \* the package's default manager (0: nil)
    instanceClosed,\* the package's instanceClosed
    instanceMu,    \* the package's instanceMu: the goroutine holding it, or 0
    built,         \* history: default managers constructed since the last package-level Close
    facade         \* a facade call on a ready manager: its options, request, response, result

vars == <<serverPy, mstate, servicePort, serviceReady, muWriter, muReaders,
          container, server, listenPort, scriptFile, lastWriter, okSince,
          pc, kind, cmgr, ctxDone, elapsed, attempt, readyPolls, cancelAt,
          latePolls, trail, rdy, reqs, unmarshalled, resp, ret,
          instance, instanceClosed, instanceMu, built, facade>>

mgrVars == <<mstate, servicePort, serviceReady, muWriter, muReaders,
             lastWriter, okSince>>
envVars == <<container, server, listenPort, scriptFile>>
pollVars == <<elapsed, attempt, readyPolls, cancelAt, latePolls>>
waitVars == <<elapsed, attempt, readyPolls, cancelAt, latePolls, trail>>
opVars == <<rdy, reqs, unmarshalled, resp>>
pkgVars == <<instance, instanceClosed, instanceMu, built>>

---------------------------------------------------------------------------
(* Bounds of the model *)

NumProcs == 2
MaxManagers == 2
NumPorts == 2
MaxFastPolls == 2
\* the runes of a token, the tokens of a response
MaxTextLen == 2
MaxTokens == 2

Procs == 1..NumProcs
MgrIds == 1..MaxManagers
Ports == 1..NumPorts

(* Program constants, in milliseconds *)
serviceCheckInterval == 500
maxServiceWaitTime == 60000
DefaultQueryTimeout == 30000
\* the Thai block, U+0E00 to U+0E7F
ThaiFirst == 3584
ThaiLast == 3711

---------------------------------------------------------------------------
(* Errors.  A Go error is its chain of messages, outermost first, and the  *)
(* *ServiceError at the end of the chain when there is one.                *)

NoSvc == [present |-> FALSE, code |-> "", message |-> ""]
SvcErr(c, msg) == [present |-> TRUE, code |-> c, message |-> msg]

Nil == [chain |-> <<>>, svc |-> NoSvc]
Err(msg) == [chain |-> <<msg>>, svc |-> NoSvc]
IsNil(e) == e.chain = <<>> /\ ~e.svc.present

\* ServiceError.Error(): "<code>: <message>"
ErrorText(e) == e.chain \o (IF e.svc.present THEN <<e.svc.code, e.svc.message>> ELSE <<>>)

\* fmt.Errorf("msg: %v", e): the text of e is kept, e itself is not
WrapV(msg, e) == [chain |-> <<msg>> \o ErrorText(e), svc |-> NoSvc]

\* fmt.Errorf("msg: %w", e): e stays in the chain
WrapW(msg, e) == [chain |-> <<msg>> \o e.chain, svc |-> e.svc]

\* errors.As(err, &target) with target a *ServiceError
ErrorsAs(e) == e.svc

ErrNotReady == Err("service not ready")
ErrTimeout == Err("service failed to start within 1m0s")
ErrCtx == Err("context canceled")

---------------------------------------------------------------------------
(* The server script and the port placeholder *)

Placeholder == [t |-> "__PYTHAINLP_SERVICE_PORT__", n |-> 0]
Text == [t |-> "text", n |-> 0]
PortTok(n) == [t |-> "port", n |-> n]

\* what service/server.py may hold: the current asset, or a stale one without
\* the placeholder
CurrentScript == <<Text, Placeholder, Text>>
StaleScript == <<Text>>
EmbeddedScripts == {CurrentScript, StaleScript}

\* strings.ReplaceAll(content, "__PYTHAINLP_SERVICE_PORT__", portStr)
ReplaceAll(s, port) ==
    [i \in 1..Len(s) |-> IF s[i] = Placeholder THEN PortTok(port) ELSE s[i]]

\* strings.Contains(s, "__PYTHAINLP_SERVICE_PORT__")
Contains(s) == \E i \in 1..Len(s) : s[i] = Placeholder

\* copyServiceFiles' check of the rendered script
RenderOK(s, port) == ~Contains(ReplaceAll(s, port))

\* the port a server run from script s listens on; 0 when the script names none
ScriptPort(s) ==
    IF \E i \in 1..Len(s) : s[i].t = "port"
    THEN s[CHOOSE i \in 1..Len(s) : s[i].t = "port" /\ \A j \in 1..(i-1) : s[j].t # "port"].n
    ELSE 0

---------------------------------------------------------------------------
(* HTTP responses *)

NoResp == [t |-> "none", err |-> NoSvc, data |-> "absent"]
TransportFail == [t |-> "transport", err |-> NoSvc, data |-> "absent"]
BadJson == [t |-> "badjson", err |-> NoSvc, data |-> "absent"]
Envelope(e, d) == [t |-> "envelope", err |-> e, data |-> d]
HealthBody(status) == [t |-> "health", err |-> NoSvc, data |-> status]

\* the envelope's error field: absent, or an object
SvcErrs == {SvcErr("E1", "bad input"), SvcErr("", "")}
\* the envelope's data field: absent, null, of the wrong shape, or the payload
DataKinds == {"absent", "null", "bad", "ok"}

PostResponses ==
    {TransportFail, BadJson} \cup
    {Envelope(e, d) : e \in SvcErrs \cup {NoSvc}, d \in DataKinds}
\* the few a run with several goroutines draws from
FewPostResponses ==
    {TransportFail, Envelope(NoSvc, "ok"), Envelope(SvcErr("E1", "bad input"), "ok")}
HealthResponses ==
    {TransportFail, BadJson, HealthBody("ready"), HealthBody("starting")}

PostKinds == {"Tokenize", "Romanize", "Transliterate", "SyllableTokenize", "Analyze"}
GetKinds == {"GetVersion", "GetSupportedEngines"}
OpKinds == PostKinds \cup GetKinds
FewOpKinds == {"Tokenize", "GetVersion"}
LifecycleKinds == {"Init", "InitRecreate", "Stop", "Close", "IsReady"}

---------------------------------------------------------------------------
(* The transport client (pure part): what a call makes of a response *)

\* a doRequest that does not look at the envelope's error field
doRequest_IgnoreError(r) ==
    CASE r.t = "transport" -> WrapW("request failed", Err("net error"))
      [] r.t = "badjson"   -> WrapW("failed to unmarshal response", Err("json error"))
      [] OTHER             -> Nil

\* Client.doRequest from the response on: the error it returns (Nil: the envelope)
doRequest(r) ==
    CASE r.t = "transport" -> WrapW("request failed", Err("net error"))
      [] r.t = "badjson"   -> WrapW("failed to unmarshal response", Err("json error"))
      [] r.err.present     -> [chain |-> <<>>, svc |-> r.err]
      [] OTHER             -> Nil

\* json.Unmarshal(resp.Data, &data): nil for a payload or null, an error otherwise
UnmarshalData(d) == IF d \in {"ok", "null"} THEN Nil ELSE Err("json error")
DataValue(d) == IF d = "ok" THEN "payload" ELSE "zero"

ParseMsg(k) ==
    CASE k = "Tokenize"         -> "failed to parse tokenize response"
      [] k = "Romanize"         -> "failed to parse romanize response"
      [] k = "Transliterate"    -> "failed to parse transliterate response"
      [] k = "SyllableTokenize" -> "failed to parse syllable tokenize response"
      [] OTHER                  -> "failed to parse analyze response"

\* Client.Tokenize, Client.Romanize, Client.Transliterate, Client.Analyze
ClientPost(k, r) ==
    LET e == doRequest(r) IN
    IF ~IsNil(e) THEN [err |-> e, val |-> "none", unm |-> FALSE]
    ELSE IF ~IsNil(UnmarshalData(r.data))
         THEN [err |-> WrapW(ParseMsg(k), UnmarshalData(r.data)), val |-> "none", unm |-> TRUE]
         ELSE [err |-> Nil, val |-> DataValue(r.data), unm |-> TRUE]

\* Client.SyllableTokenize (not among the sources: as the other POST methods)
ClientSyllableTokenize(r) == ClientPost("SyllableTokenize", r)

\* Client.Health
ClientHealth(r) ==
    CASE r.t = "transport" -> [err |-> WrapW("request failed", Err("net error")), val |-> "none", unm |-> FALSE]
      [] r.t = "badjson"   -> [err |-> WrapW("failed to parse health response", Err("json error")), val |-> "none", unm |-> FALSE]
      [] OTHER             -> [err |-> Nil, val |-> r.data, unm |-> FALSE]

\* isServiceRunning from the health response on
isServiceRunning(r) == IsNil(ClientHealth(r).err) /\ ClientHealth(r).val = "ready"

FailMsg(k) ==
    CASE k = "Tokenize"            -> "tokenization failed"
      [] k = "Romanize"            -> "romanization failed"
      [] k = "Transliterate"       -> "transliteration failed"
      [] k = "SyllableTokenize"    -> "syllable tokenization failed"
      [] k = "Analyze"             -> "analysis failed"
      [] k = "GetVersion"          -> "failed to get version"
      [] OTHER                     -> "failed to get engine info"

ClientCall(k, r) ==
    CASE k = "SyllableTokenize" -> ClientSyllableTokenize(r)
      [] k \in GetKinds         -> ClientHealth(r)
      [] OTHER                  -> ClientPost(k, r)

\* a facade operation after its readiness check: the client call's result, wrapped
FacadeResult(k, r) ==
    LET c == ClientCall(k, r) IN
    IF ~IsNil(c.err) THEN [err |-> WrapW(FailMsg(k), c.err), val |-> "none"]
    ELSE [err |-> Nil, val |-> c.val]

---------------------------------------------------------------------------
(* The state after the package is loaded: no manager, every goroutine idle *)

NoRet == [err |-> Nil, val |-> "none"]

InitOver(S) ==
    /\ serverPy \in S
    /\ mstate = [m \in MgrIds |-> "none"]
    /\ servicePort = [m \in MgrIds |-> 0]
    /\ serviceReady = [m \in MgrIds |-> FALSE]
    /\ muWriter = [m \in MgrIds |-> 0]
    /\ muReaders = [m \in MgrIds |-> {}]
    /\ container = [m \in MgrIds |-> "absent"]
    /\ server = [m \in MgrIds |-> "down"]
    /\ listenPort = [m \in MgrIds |-> 0]
    /\ scriptFile = [m \in MgrIds |-> <<>>]
    /\ lastWriter = [m \in MgrIds |-> 0]
    /\ okSince = [m \in MgrIds |-> FALSE]
    /\ pc = [p \in Procs |-> "idle"]
    /\ kind = [p \in Procs |-> "none"]
    /\ cmgr = [p \in Procs |-> 0]
    /\ ctxDone = [p \in Procs |-> FALSE]
    /\ elapsed = [p \in Procs |-> 0]
    /\ attempt = [p \in Procs |-> 0]
    /\ readyPolls = [p \in Procs |-> 0]
    /\ cancelAt = [p \in Procs |-> -1]
    /\ latePolls = [p \in Procs |-> 0]
    /\ trail = [p \in Procs |-> <<>>]
    /\ rdy = [p \in Procs |-> "unknown"]
    /\ reqs = [p \in Procs |-> 0]
    /\ unmarshalled = [p \in Procs |-> FALSE]
    /\ resp = [p \in Procs |-> NoResp]
    /\ ret = [p \in Procs |-> NoRet]
    /\ instance = 0
    /\ instanceClosed = FALSE
    /\ instanceMu = 0
    /\ built = 0

---------------------------------------------------------------------------
(* The environment *)

\* the ports a running container publishes: the OS will not hand them out
BoundPorts == {servicePort[m] : m \in {x \in MgrIds : container[x] = "running"}}

\* the manager's port is published by another manager's running container
PortBusy(m) ==
    \E o \in MgrIds \ {m} : container[o] = "running" /\ servicePort[o] = servicePort[m]

\* the server state behind http://localhost:<servicePort of m>
ServerAt(m) ==
    IF \E o \in MgrIds : /\ container[o] = "running" /\ servicePort[o] = servicePort[m]
                         /\ server[o] # "down" /\ listenPort[o] = servicePort[o]
    THEN server[CHOOSE o \in MgrIds : /\ container[o] = "running"
                                      /\ servicePort[o] = servicePort[m]
                                      /\ server[o] # "down"
                                      /\ listenPort[o] = servicePort[o]]
    ELSE "down"

\* what GET /health may answer to goroutine p asking for manager m
HealthAnswers(p, m) ==
    IF ctxDone[p] THEN {TransportFail}
    ELSE CASE ServerAt(m) = "ready"    -> {HealthBody("ready"), TransportFail, BadJson}
           [] ServerAt(m) = "starting" -> {HealthBody("starting"), TransportFail}
           [] OTHER                    -> {TransportFail}

\* what a POST may answer, out of the responses R under consideration
PostAnswers(p, m, R) ==
    IF ctxDone[p] \/ ServerAt(m) # "ready" THEN {TransportFail} ELSE R

\* an exec in m's container can work: the container runs, the context is live
ExecCanWork(p, m) == container[m] = "running" /\ ~ctxDone[p]

---------------------------------------------------------------------------
(* Calls: entering and leaving *)

\* a result is handed to the caller before anything else happens
Quiet == \A q \in Procs : pc[q] # "done"

\* goroutine p is at l and may take its step
At(p, l) == pc[p] = l /\ Quiet

\* the call of goroutine p returns (e, v)
Finish(p, e, v) ==
    /\ pc' = [pc EXCEPT ![p] = "done"]
    /\ ret' = [ret EXCEPT ![p] = [err |-> e, val |-> v]]

Goto(p, l) ==
    /\ pc' = [pc EXCEPT ![p] = l]
    /\ UNCHANGED ret

\* the step is recorded once it has been carried out: the call has gone on to next
Trail(p, step, next) ==
    trail' = [trail EXCEPT ![p] = IF pc'[p] = next THEN Append(@, step) ELSE @]

FirstPc(k) ==
    CASE k = "Init"         -> "init_docker"
      [] k = "InitRecreate" -> "recreate_docker"
      [] k = "Stop"         -> "stop_lock"
      [] k = "Close"        -> "close_lock"
      [] OTHER              -> "rlock"

\* NewManager: m is the manager constructed, port what net.Listen(":0") is handed
NewManager(p, m, port) ==
    /\ At(p, "idle")
    /\ mstate[m] = "none"
    /\ \A o \in MgrIds : o < m => mstate[o] # "none"
    /\ kind' = [kind EXCEPT ![p] = "NewManager"]
    /\ \/ /\ Finish(p, WrapW("failed to allocate port", Err("listen error")), "none")
          /\ UNCHANGED <<mstate, servicePort, cmgr>>
       \/ /\ port \in Ports \ BoundPorts
          /\ Finish(p, WrapW("failed to create Docker manager", Err("docker error")), "none")
          /\ UNCHANGED <<mstate, servicePort, cmgr>>
       \/ /\ port \in Ports \ BoundPorts
          /\ mstate' = [mstate EXCEPT ![m] = "live"]
          /\ servicePort' = [servicePort EXCEPT ![m] = port]
          /\ cmgr' = [cmgr EXCEPT ![p] = m]
          /\ Finish(p, Nil, "manager")
    /\ UNCHANGED <<serverPy, serviceReady, muWriter, muReaders, lastWriter, okSince,
                   ctxDone>>
    /\ UNCHANGED <<envVars, waitVars, opVars>>

\* goroutine p calls method k of manager m
StartCall(p, k, m) ==
    /\ At(p, "idle")
    /\ mstate[m] # "none"
    /\ kind' = [kind EXCEPT ![p] = k]
    /\ cmgr' = [cmgr EXCEPT ![p] = m]
    /\ Goto(p, FirstPc(k))
    /\ UNCHANGED <<serverPy, ctxDone>>
    /\ UNCHANGED <<mgrVars, envVars, waitVars, opVars>>

\* the caller takes the result; the goroutine is free for its next call
Return(p) ==
    /\ pc[p] = "done"
    /\ pc' = [pc EXCEPT ![p] = "idle"]
    /\ kind' = [kind EXCEPT ![p] = "none"]
    /\ cmgr' = [cmgr EXCEPT ![p] = 0]
    /\ ctxDone' = [ctxDone EXCEPT ![p] = FALSE]
    /\ elapsed' = [elapsed EXCEPT ![p] = 0]
    /\ attempt' = [attempt EXCEPT ![p] = 0]
    /\ readyPolls' = [readyPolls EXCEPT ![p] = 0]
    /\ cancelAt' = [cancelAt EXCEPT ![p] = -1]
    /\ latePolls' = [latePolls EXCEPT ![p] = 0]
    /\ trail' = [trail EXCEPT ![p] = <<>>]
    /\ rdy' = [rdy EXCEPT ![p] = "unknown"]
    /\ reqs' = [reqs EXCEPT ![p] = 0]
    /\ unmarshalled' = [unmarshalled EXCEPT ![p] = FALSE]
    /\ resp' = [resp EXCEPT ![p] = NoResp]
    /\ ret' = [ret EXCEPT ![p] = NoRet]
    /\ UNCHANGED <<serverPy, mgrVars, envVars>>

---------------------------------------------------------------------------
(* Init and InitRecreate *)

\* pm.docker.Init(): the container is created and started, or an error
DockerInit(p) ==
    LET m == cmgr[p] IN
    /\ At(p, "init_docker")
    /\ \/ /\ Finish(p, WrapW("failed to initialize docker", Err("docker error")), "none")
          /\ UNCHANGED envVars
       \/ /\ container[m] = "running" \/ ~PortBusy(m)
          /\ container' = [container EXCEPT ![m] = "running"]
          /\ Goto(p, "ss_lock")
          /\ UNCHANGED <<server, listenPort, scriptFile>>
    /\ Trail(p, "docker", "ss_lock")
    /\ UNCHANGED <<serverPy, mgrVars, kind, cmgr, ctxDone, pollVars, opVars>>

\* pm.docker.InitRecreate() / InitRecreateNoCache(): a new container, or an error
DockerRecreate(p) ==
    LET m == cmgr[p] IN
    /\ At(p, "recreate_docker")
    /\ \/ /\ Finish(p, Err("docker error"), "none")
          /\ UNCHANGED envVars
       \/ /\ ~PortBusy(m)
          /\ container' = [container EXCEPT ![m] = "running"]
          /\ server' = [server EXCEPT ![m] = "down"]
          /\ listenPort' = [listenPort EXCEPT ![m] = 0]
          /\ scriptFile' = [scriptFile EXCEPT ![m] = <<>>]
          /\ Goto(p, "ss_lock")
    /\ Trail(p, "docker", "ss_lock")
    /\ UNCHANGED <<serverPy, mgrVars, kind, cmgr, ctxDone, pollVars, opVars>>

\* the goroutines that have called pm.mu.Lock() on manager m and wait for it
LockWaiters(m) ==
    {q \in Procs : cmgr[q] = m /\ pc[q] \in {"ss_lock", "stop_lock", "close_lock",
                                             "pkg_close_mgr"}}

\* the goroutines blocked in pm.mu.RLock() on manager m. sync.RWMutex lets no
\* new reader in once a Lock is pending, and its Unlock admits the readers
\* that blocked meanwhile before the next Lock goes ahead.
BlockedReaders(m) == {q \in Procs : cmgr[q] = m /\ pc[q] = "rlock"}

\* a startService that does not take the lock
SSLock_NoLock(p) ==
    /\ At(p, "ss_lock")
    /\ Goto(p, "ss_getclient")
    /\ UNCHANGED <<serverPy, mgrVars, envVars, kind, cmgr, ctxDone, waitVars, opVars>>

\* a startService that takes the lock while IsReady calls hold it shared
SSLock_Barge(p) ==
    LET m == cmgr[p] IN
    /\ At(p, "ss_lock")
    /\ muWriter[m] = 0
    /\ muWriter' = [muWriter EXCEPT ![m] = p]
    /\ Goto(p, "ss_getclient")
    /\ UNCHANGED <<serverPy, mstate, servicePort, serviceReady, muReaders, lastWriter,
                   okSince, envVars, kind, cmgr, ctxDone, waitVars, opVars>>

\* startService: pm.mu.Lock()
SSLock(p) ==
    LET m == cmgr[p] IN
    /\ At(p, "ss_lock")
    /\ muWriter[m] = 0 /\ muReaders[m] = {}
    /\ muWriter' = [muWriter EXCEPT ![m] = p]
    /\ Goto(p, "ss_getclient")
    /\ UNCHANGED <<serverPy, mstate, servicePort, serviceReady, muReaders, lastWriter,
                   okSince, envVars, kind, cmgr, ctxDone, waitVars, opVars>>

\* a startService that marks the manager not ready when it fails
SSFail_ClearsFlag(p, e) ==
    /\ muWriter' = [muWriter EXCEPT ![cmgr[p]] = 0]
    /\ muReaders' = [muReaders EXCEPT ![cmgr[p]] = BlockedReaders(cmgr[p])]
    /\ serviceReady' = [serviceReady EXCEPT ![cmgr[p]] = FALSE]
    /\ Finish(p, WrapW("failed to start Python service", e), "none")
    /\ UNCHANGED <<mstate, servicePort, lastWriter, okSince>>

\* a startService that returns its error with the lock still held
SSFail_KeepsLock(p, e) ==
    /\ Finish(p, WrapW("failed to start Python service", e), "none")
    /\ UNCHANGED mgrVars

\* startService returns the error e: the deferred Unlock, Init's wrapping
SSFail(p, e) ==
    /\ muWriter' = [muWriter EXCEPT ![cmgr[p]] = 0]
    /\ muReaders' = [muReaders EXCEPT ![cmgr[p]] = BlockedReaders(cmgr[p])]
    /\ Finish(p, WrapW("failed to start Python service", e), "none")
    /\ UNCHANGED <<mstate, servicePort, serviceReady, lastWriter, okSince>>

\* pm.serviceReady = true; return nil: the deferred Unlock, Init returns nil
SSSucceed(p) ==
    /\ serviceReady' = [serviceReady EXCEPT ![cmgr[p]] = TRUE]
    /\ lastWriter' = [lastWriter EXCEPT ![cmgr[p]] = p]
    /\ okSince' = [okSince EXCEPT ![cmgr[p]] = TRUE]
    /\ muWriter' = [muWriter EXCEPT ![cmgr[p]] = 0]
    /\ muReaders' = [muReaders EXCEPT ![cmgr[p]] = BlockedReaders(cmgr[p])]
    /\ Finish(p, Nil, "none")
    /\ UNCHANGED <<mstate, servicePort>>

\* startService moves on to l
SSGoto(p, l) ==
    /\ Goto(p, l)
    /\ UNCHANGED mgrVars

\* a startService that goes to the health check without copying the script
SSGetClient_SkipCopy(p) ==
    /\ At(p, "ss_getclient")
    /\ SSGoto(p, "ss_health")
    /\ UNCHANGED <<serverPy, envVars, kind, cmgr, ctxDone, waitVars, opVars>>

\* pm.docker.GetClient()
SSGetClient(p) ==
    /\ At(p, "ss_getclient")
    /\ \/ SSFail(p, WrapW("failed to get Docker client", Err("docker error")))
       \/ SSGoto(p, "copy_render")
    /\ UNCHANGED <<serverPy, envVars, kind, cmgr, ctxDone, waitVars, opVars>>

\* copyServiceFiles: read server.py, substitute the port, verify
CopyRender(p) ==
    /\ At(p, "copy_render")
    /\ IF RenderOK(serverPy, servicePort[cmgr[p]])
       THEN SSGoto(p, "copy_mkdir")
       ELSE SSFail(p, WrapW("failed to copy service files",
                            Err("failed to replace port placeholder in server.py")))
    /\ UNCHANGED <<serverPy, envVars, kind, cmgr, ctxDone, waitVars, opVars>>

\* copyServiceFiles: mkdir -p /workspace/service
CopyMkdir(p) ==
    /\ At(p, "copy_mkdir")
    /\ \/ ExecCanWork(p, cmgr[p]) /\ SSGoto(p, "copy_write")
       \/ SSFail(p, WrapW("failed to copy service files",
                    WrapW("failed to create service directory", Err("exec error"))))
    /\ Trail(p, "mkdir", "copy_write")
    /\ UNCHANGED <<serverPy, envVars, kind, cmgr, ctxDone, pollVars, opVars>>

\* copyServiceFiles: write the rendered server.py into the container
CopyWrite(p) ==
    LET m == cmgr[p] IN
    /\ At(p, "copy_write")
    /\ \/ /\ ExecCanWork(p, m)
          /\ scriptFile' = [scriptFile EXCEPT ![m] = ReplaceAll(serverPy, servicePort[m])]
          /\ SSGoto(p, "copy_chmod")
       \/ /\ SSFail(p, WrapW("failed to copy service files",
                       WrapW("failed to write server.py", Err("exec error"))))
          /\ UNCHANGED scriptFile
    /\ Trail(p, "write", "copy_chmod")
    /\ UNCHANGED <<serverPy, container, server, listenPort, kind, cmgr, ctxDone,
                   pollVars, opVars>>

\* copyServiceFiles: chmod +x
CopyChmod(p) ==
    /\ At(p, "copy_chmod")
    /\ \/ ExecCanWork(p, cmgr[p]) /\ SSGoto(p, "ss_health")
       \/ SSFail(p, WrapW("failed to copy service files",
                    WrapW("failed to chmod server.py", Err("exec error"))))
    /\ Trail(p, "chmod", "ss_health")
    /\ UNCHANGED <<serverPy, envVars, kind, cmgr, ctxDone, pollVars, opVars>>

\* a startService that goes on to launch the server whatever the health check says
SSHealth_AlwaysLaunch(p) ==
    /\ At(p, "ss_health")
    /\ \E r \in HealthAnswers(p, cmgr[p]) :
          /\ readyPolls' = [readyPolls EXCEPT ![p] = IF r = HealthBody("ready") THEN @ + 1 ELSE @]
          /\ SSGoto(p, "ss_execcreate")
    /\ trail' = [trail EXCEPT ![p] = Append(@, "health")]
    /\ UNCHANGED <<serverPy, envVars, kind, cmgr, ctxDone, elapsed, attempt, cancelAt,
                   latePolls, opVars>>

\* startService: if pm.isServiceRunning(ctx) { pm.serviceReady = true; return nil }
SSHealth(p) ==
    /\ At(p, "ss_health")
    /\ \E r \in HealthAnswers(p, cmgr[p]) :
          /\ readyPolls' = [readyPolls EXCEPT ![p] = IF r = HealthBody("ready") THEN @ + 1 ELSE @]
          /\ IF isServiceRunning(r) THEN SSSucceed(p) ELSE SSGoto(p, "ss_execcreate")
    /\ trail' = [trail EXCEPT ![p] = IF pc'[p] = "done" THEN @ \o <<"health", "ready">>
                                                      ELSE Append(@, "health")]
    /\ UNCHANGED <<serverPy, envVars, kind, cmgr, ctxDone, elapsed, attempt, cancelAt,
                   latePolls, opVars>>

\* startService: dockerClient.ContainerExecCreate
SSExecCreate(p) ==
    /\ At(p, "ss_execcreate")
    /\ \/ ExecCanWork(p, cmgr[p]) /\ SSGoto(p, "ss_execstart")
       \/ SSFail(p, WrapW("failed to create service exec", Err("exec error")))
    /\ Trail(p, "execcreate", "ss_execstart")
    /\ UNCHANGED <<serverPy, envVars, kind, cmgr, ctxDone, pollVars, opVars>>

\* startService: ContainerExecStart launches python detached; then the 2 s sleep
\* and the process listing, whose result is only logged; waitForService takes
\* its deadline
SSExecStart(p) ==
    LET m == cmgr[p] IN
    /\ At(p, "ss_execstart")
    /\ \/ /\ ExecCanWork(p, m)
          /\ IF server[m] = "down"
             THEN /\ server' = [server EXCEPT ![m] = "starting"]
                  /\ listenPort' = [listenPort EXCEPT ![m] = ScriptPort(scriptFile[m])]
             ELSE UNCHANGED <<server, listenPort>>
          /\ SSGoto(p, "wait_check")
       \/ /\ SSFail(p, WrapW("failed to start service", Err("exec error")))
          /\ UNCHANGED <<server, listenPort>>
    /\ Trail(p, "execstart", "wait_check")
    /\ UNCHANGED <<serverPy, container, scriptFile, kind, cmgr, ctxDone, pollVars, opVars>>

---------------------------------------------------------------------------
(* waitForService: elapsed is the time since the deadline was taken *)

\* how long a health request may take: it answers at once, or only when the
\* client's timeout (QueryTimeout) ends it; at most MaxFastPolls quick ones
Latencies(p) ==
    IF attempt[p] <= MaxFastPolls THEN {0, DefaultQueryTimeout} ELSE {DefaultQueryTimeout}

\* for time.Now().Before(deadline)
WaitCheck(p) ==
    /\ At(p, "wait_check")
    /\ IF elapsed[p] < maxServiceWaitTime
       THEN SSGoto(p, "wait_select")
       ELSE SSFail(p, WrapW("service failed to start", ErrTimeout))
    /\ UNCHANGED <<serverPy, envVars, kind, cmgr, ctxDone, waitVars, opVars>>

\* a select without the ctx.Done() case: the wait sleeps and polls on
WaitSelect_IgnoreCtx(p) ==
    /\ At(p, "wait_select")
    /\ elapsed' = [elapsed EXCEPT ![p] = @ + serviceCheckInterval]
    /\ attempt' = [attempt EXCEPT ![p] = @ + 1]
    /\ SSGoto(p, "wait_poll")
    /\ UNCHANGED <<serverPy, envVars, kind, cmgr, ctxDone, readyPolls, cancelAt,
                   latePolls, trail, opVars>>

\* select: ctx.Done() is ready at once when the context is cancelled; the timer
\* fires serviceCheckInterval later
WaitSelect(p) ==
    /\ At(p, "wait_select")
    /\ IF ctxDone[p]
       THEN /\ SSFail(p, WrapW("service failed to start", ErrCtx))
            /\ UNCHANGED <<elapsed, attempt>>
       ELSE /\ elapsed' = [elapsed EXCEPT ![p] = @ + serviceCheckInterval]
            /\ attempt' = [attempt EXCEPT ![p] = @ + 1]
            /\ SSGoto(p, "wait_poll")
    /\ UNCHANGED <<serverPy, envVars, kind, cmgr, ctxDone, readyPolls, cancelAt,
                   latePolls, trail, opVars>>

\* the poll: if pm.isServiceRunning(ctx) { return nil }, and then in
\* startService pm.serviceReady = true.  A request whose context is cancelled
\* while it is in flight is aborted at that moment.
WaitPoll(p) ==
    /\ At(p, "wait_poll")
    /\ \E r \in HealthAnswers(p, cmgr[p]), lat \in Latencies(p) :
          /\ elapsed' = [elapsed EXCEPT ![p] = @ + lat]
          /\ readyPolls' = [readyPolls EXCEPT ![p] = IF r = HealthBody("ready") THEN @ + 1 ELSE @]
          /\ cancelAt' = [cancelAt EXCEPT ![p] = IF ctxDone[p] THEN elapsed[p] + lat ELSE @]
          /\ latePolls' = [latePolls EXCEPT ![p] = IF ctxDone[p] THEN @ + 1 ELSE @]
          /\ IF isServiceRunning(r) THEN SSSucceed(p) ELSE SSGoto(p, "wait_check")
    /\ trail' = [trail EXCEPT ![p] = IF pc'[p] = "done" THEN @ \o <<"poll", "ready">>
                                                      ELSE Append(@, "poll")]
    /\ UNCHANGED <<serverPy, envVars, kind, cmgr, ctxDone, attempt, opVars>>

---------------------------------------------------------------------------
(* Stop and Close *)

\* a Stop/Close that takes the lock and leaves the flag as it is
ClearReady_Skip(p, l) ==
    LET m == cmgr[p] IN
    /\ muWriter[m] = 0 /\ muReaders[m] = {}
    /\ Goto(p, l)
    /\ UNCHANGED <<serverPy, mgrVars, envVars, kind, cmgr, ctxDone, waitVars, opVars>>

\* pm.mu.Lock(); pm.serviceReady = false; pm.mu.Unlock()
ClearReady(p, l) ==
    LET m == cmgr[p] IN
    /\ muWriter[m] = 0 /\ muReaders[m] = {}
    /\ serviceReady' = [serviceReady EXCEPT ![m] = FALSE]
    /\ lastWriter' = [lastWriter EXCEPT ![m] = p]
    /\ muReaders' = [muReaders EXCEPT ![m] = BlockedReaders(m)]
    /\ Goto(p, l)
    /\ UNCHANGED <<serverPy, mstate, servicePort, muWriter, okSince,
                   envVars, kind, cmgr, ctxDone, waitVars, opVars>>

StopLock(p) ==
    /\ At(p, "stop_lock")
    /\ ClearReady(p, "stop_docker")

\* return pm.docker.Stop()
StopDocker(p) ==
    LET m == cmgr[p] IN
    /\ At(p, "stop_docker")
    /\ \/ /\ container' = [container EXCEPT ![m] = IF @ = "running" THEN "stopped" ELSE @]
          /\ server' = [server EXCEPT ![m] = "down"]
          /\ listenPort' = [listenPort EXCEPT ![m] = 0]
          /\ Finish(p, Nil, "none")
       \/ /\ Finish(p, Err("docker error"), "none")
          /\ UNCHANGED <<container, server, listenPort>>
    /\ okSince' = [okSince EXCEPT ![m] = FALSE]
    /\ UNCHANGED <<serverPy, mstate, servicePort, serviceReady, muWriter, muReaders,
                   lastWriter, scriptFile, kind, cmgr, ctxDone, waitVars, opVars>>

\* a Close that goes to the teardown without touching the flag
CloseLock_NoClear(p) ==
    /\ At(p, "close_lock")
    /\ Goto(p, "close_docker")
    /\ UNCHANGED <<serverPy, mgrVars, envVars, kind, cmgr, ctxDone, waitVars, opVars>>

CloseLock(p) ==
    /\ At(p, "close_lock")
    /\ ClearReady(p, "close_docker")

\* pm.logger.Close(); return pm.docker.Close(): the handle is released; whether
\* the container goes down with it is the handle's business
CloseDocker(p) ==
    LET m == cmgr[p] IN
    /\ At(p, "close_docker")
    /\ \/ /\ container' = [container EXCEPT ![m] = IF @ = "running" THEN "stopped" ELSE @]
          /\ server' = [server EXCEPT ![m] = "down"]
          /\ listenPort' = [listenPort EXCEPT ![m] = 0]
          /\ Finish(p, Nil, "none")
       \/ /\ Finish(p, Nil, "none")
          /\ UNCHANGED <<container, server, listenPort>>
       \/ /\ Finish(p, Err("docker error"), "none")
          /\ UNCHANGED <<container, server, listenPort>>
    /\ mstate' = [mstate EXCEPT ![m] = "closed"]
    /\ okSince' = [okSince EXCEPT ![m] = FALSE]
    /\ UNCHANGED <<serverPy, servicePort, serviceReady, muWriter, muReaders,
                   lastWriter, scriptFile, kind, cmgr, ctxDone, waitVars, opVars>>

---------------------------------------------------------------------------
(* IsReady and the facade operations *)

\* IsReady: pm.mu.RLock(). It goes ahead when the last Unlock admitted it, or
\* when nobody holds the lock exclusively and no Lock is pending.
RLock(p) ==
    LET m == cmgr[p] IN
    /\ At(p, "rlock")
    /\ \/ p \in muReaders[m]
       \/ muWriter[m] = 0 /\ LockWaiters(m) = {}
    /\ muReaders' = [muReaders EXCEPT ![m] = @ \cup {p}]
    /\ Goto(p, "rread")
    /\ UNCHANGED <<serverPy, mstate, servicePort, serviceReady, muWriter, lastWriter,
                   okSince, envVars, kind, cmgr, ctxDone, waitVars, opVars>>

\* a facade operation that does not look at IsReady()'s answer
AfterReady_NoCheck(p, b) == Goto(p, "op_http")

\* what a facade operation does with IsReady()'s answer b
AfterReady(p, b) ==
    IF b THEN Goto(p, "op_http") ELSE Finish(p, ErrNotReady, "none")

\* IsReady: return pm.serviceReady, the deferred RUnlock; for a facade
\* operation, its "if !pm.IsReady() { return nil, service not ready }"
RRead(p) ==
    LET m == cmgr[p] IN
    /\ At(p, "rread")
    /\ muReaders' = [muReaders EXCEPT ![m] = @ \ {p}]
    /\ rdy' = [rdy EXCEPT ![p] = IF serviceReady[m] THEN "true" ELSE "false"]
    /\ IF kind[p] = "IsReady"
       THEN Finish(p, Nil, IF serviceReady[m] THEN "true" ELSE "false")
       ELSE AfterReady(p, serviceReady[m])
    /\ UNCHANGED <<serverPy, mstate, servicePort, serviceReady, muWriter, lastWriter,
                   okSince, envVars, kind, cmgr, ctxDone, waitVars, reqs, unmarshalled,
                   resp>>

\* an operation that marks the manager not ready when its request fails
OpHTTP_DropsReady(p, R) ==
    LET m == cmgr[p] IN
    /\ At(p, "op_http")
    /\ \E r \in (IF kind[p] \in GetKinds THEN HealthAnswers(p, m) ELSE PostAnswers(p, m, R)) :
          /\ reqs' = [reqs EXCEPT ![p] = @ + 1]
          /\ resp' = [resp EXCEPT ![p] = r]
          /\ unmarshalled' = [unmarshalled EXCEPT ![p] = ClientCall(kind[p], r).unm]
          /\ serviceReady' = [serviceReady EXCEPT ![m] = IsNil(FacadeResult(kind[p], r).err) /\ @]
          /\ Finish(p, FacadeResult(kind[p], r).err, FacadeResult(kind[p], r).val)
    /\ UNCHANGED <<serverPy, mstate, servicePort, muWriter, muReaders, lastWriter, okSince,
                   envVars, kind, cmgr, ctxDone, waitVars, rdy>>

\* an operation that sends its request a second time when the first one fails
OpHTTP_Retry(p, R) ==
    LET m == cmgr[p] IN
    /\ At(p, "op_http")
    /\ \E r \in (IF kind[p] \in GetKinds THEN HealthAnswers(p, m) ELSE PostAnswers(p, m, R)) :
          /\ reqs' = [reqs EXCEPT ![p] = @ + 1]
          /\ resp' = [resp EXCEPT ![p] = r]
          /\ unmarshalled' = [unmarshalled EXCEPT ![p] = ClientCall(kind[p], r).unm]
          /\ IF ~IsNil(FacadeResult(kind[p], r).err) /\ reqs[p] = 0
             THEN Goto(p, "op_http")
             ELSE Finish(p, FacadeResult(kind[p], r).err, FacadeResult(kind[p], r).val)
    /\ UNCHANGED <<serverPy, mgrVars, envVars, kind, cmgr, ctxDone, waitVars, rdy>>

\* the operation's one request and what it makes of the response r
OpHTTP(p, R) ==
    LET m == cmgr[p] IN
    /\ At(p, "op_http")
    /\ \E r \in (IF kind[p] \in GetKinds THEN HealthAnswers(p, m) ELSE PostAnswers(p, m, R)) :
          /\ reqs' = [reqs EXCEPT ![p] = @ + 1]
          /\ resp' = [resp EXCEPT ![p] = r]
          /\ unmarshalled' = [unmarshalled EXCEPT ![p] = ClientCall(kind[p], r).unm]
          /\ Finish(p, FacadeResult(kind[p], r).err, FacadeResult(kind[p], r).val)
    /\ UNCHANGED <<serverPy, mgrVars, envVars, kind, cmgr, ctxDone, waitVars, rdy>>

---------------------------------------------------------------------------
(* The package-level functions and the default manager *)

PkgKinds == {"Init", "InitRecreate", "Close"} \cup OpKinds
FewPkgKinds == {"Init", "Close", "Tokenize"}

\* goroutine p calls the package-level function k (its context is Background)
PkgCall(p, k) ==
    /\ At(p, "idle")
    /\ kind' = [kind EXCEPT ![p] = k]
    /\ Goto(p, IF k = "Close" THEN "pkg_close_lock" ELSE "pkg_lock")
    /\ UNCHANGED <<serverPy, mgrVars, envVars, cmgr, ctxDone, waitVars, opVars, pkgVars>>

\* a getOrCreateDefaultManager that does not take instanceMu
PkgLock_NoMutex(p) ==
    /\ At(p, "pkg_lock")
    /\ Goto(p, "pkg_check")
    /\ UNCHANGED <<serverPy, mgrVars, envVars, kind, cmgr, ctxDone, waitVars, opVars, pkgVars>>

\* getOrCreateDefaultManager: instanceMu.Lock()
PkgLock(p) ==
    /\ At(p, "pkg_lock")
    /\ instanceMu = 0
    /\ instanceMu' = p
    /\ Goto(p, "pkg_check")
    /\ UNCHANGED <<serverPy, mgrVars, envVars, kind, cmgr, ctxDone, waitVars, opVars,
                   instance, instanceClosed, built>>

\* a getOrCreateDefaultManager that constructs only when there is no instance
PkgCheck_NilOnly(p) ==
    /\ At(p, "pkg_check")
    /\ IF instance = 0
       THEN /\ Goto(p, "pkg_new")
            /\ UNCHANGED <<cmgr, instanceMu>>
       ELSE /\ cmgr' = [cmgr EXCEPT ![p] = instance]
            /\ instanceMu' = 0
            /\ Goto(p, FirstPc(kind[p]))
    /\ UNCHANGED <<serverPy, mgrVars, envVars, kind, ctxDone, waitVars, opVars,
                   instance, instanceClosed, built>>

\* getOrCreateDefaultManager: if instance == nil || instanceClosed; otherwise
\* return instance, the deferred Unlock, and the caller goes on to mgr's method
PkgCheck(p) ==
    /\ At(p, "pkg_check")
    /\ IF instance = 0 \/ instanceClosed
       THEN /\ Goto(p, "pkg_new")
            /\ UNCHANGED <<cmgr, instanceMu>>
       ELSE /\ cmgr' = [cmgr EXCEPT ![p] = instance]
            /\ instanceMu' = 0
            /\ Goto(p, FirstPc(kind[p]))
    /\ UNCHANGED <<serverPy, mgrVars, envVars, kind, ctxDone, waitVars, opVars,
                   instance, instanceClosed, built>>

\* manager m is the next one to be constructed
NextManager(m) == mstate[m] = "none" /\ \A o \in MgrIds : o < m => mstate[o] # "none"

\* getOrCreateDefaultManager: NewManager(ctx), instance = mgr, instanceClosed =
\* false; m is the manager constructed, port what net.Listen(":0") is handed.
\* Once MaxManagers managers exist, no further one is constructed: net.Listen
\* fails
PkgNew(p, m, port) ==
    /\ At(p, "pkg_new")
    /\ \/ /\ Finish(p, WrapW("failed to create default manager",
                       WrapW("failed to allocate port", Err("listen error"))), "none")
          /\ UNCHANGED <<mstate, servicePort, cmgr, instance, instanceClosed, built>>
       \/ /\ NextManager(m)
          /\ port \in Ports \ BoundPorts
          /\ Finish(p, WrapW("failed to create default manager",
                       WrapW("failed to create Docker manager", Err("docker error"))), "none")
          /\ UNCHANGED <<mstate, servicePort, cmgr, instance, instanceClosed, built>>
       \/ /\ NextManager(m)
          /\ port \in Ports \ BoundPorts
          /\ mstate' = [mstate EXCEPT ![m] = "live"]
          /\ servicePort' = [servicePort EXCEPT ![m] = port]
          /\ instance' = m
          /\ instanceClosed' = FALSE
          /\ built' = built + 1
          /\ cmgr' = [cmgr EXCEPT ![p] = m]
          /\ Goto(p, FirstPc(kind[p]))
    /\ instanceMu' = 0
    /\ UNCHANGED <<serverPy, serviceReady, muWriter, muReaders, lastWriter, okSince,
                   envVars, kind, ctxDone, waitVars, opVars>>

\* Close: instanceMu.Lock(); if instance != nil; otherwise return nil
PkgCloseLock(p) ==
    /\ At(p, "pkg_close_lock")
    /\ instanceMu = 0
    /\ IF instance = 0
       THEN /\ Finish(p, Nil, "none")
            /\ UNCHANGED <<cmgr, instanceMu>>
       ELSE /\ cmgr' = [cmgr EXCEPT ![p] = instance]
            /\ instanceMu' = p
            /\ Goto(p, "pkg_close_mgr")
    /\ UNCHANGED <<serverPy, mgrVars, envVars, kind, ctxDone, waitVars, opVars,
                   instance, instanceClosed, built>>

\* Close: instance.Close(), its first half
PkgCloseMgr(p) ==
    /\ At(p, "pkg_close_mgr")
    /\ ClearReady(p, "pkg_close_docker")
    /\ UNCHANGED pkgVars

\* Close: instance.Close(), its second half; instanceClosed = true; return err
PkgCloseDocker(p) ==
    LET m == cmgr[p] IN
    /\ At(p, "pkg_close_docker")
    /\ \/ /\ container' = [container EXCEPT ![m] = IF @ = "running" THEN "stopped" ELSE @]
          /\ server' = [server EXCEPT ![m] = "down"]
          /\ listenPort' = [listenPort EXCEPT ![m] = 0]
          /\ Finish(p, Nil, "none")
       \/ /\ Finish(p, Nil, "none")
          /\ UNCHANGED <<container, server, listenPort>>
       \/ /\ Finish(p, Err("docker error"), "none")
          /\ UNCHANGED <<container, server, listenPort>>
    /\ mstate' = [mstate EXCEPT ![m] = "closed"]
    /\ okSince' = [okSince EXCEPT ![m] = FALSE]
    /\ instanceClosed' = TRUE
    /\ instanceMu' = 0
    /\ built' = 0
    /\ UNCHANGED <<serverPy, servicePort, serviceReady, muWriter, muReaders,
                   lastWriter, scriptFile, kind, cmgr, ctxDone, waitVars, opVars, instance>>

---------------------------------------------------------------------------
(* Environment steps *)

\* the caller cancels the context it passed
Cancel(p) ==
    /\ Quiet
    /\ pc[p] # "idle"
    /\ kind[p] \in {"Init", "InitRecreate"} \cup OpKinds
    /\ ~ctxDone[p]
    /\ ctxDone' = [ctxDone EXCEPT ![p] = TRUE]
    /\ cancelAt' = [cancelAt EXCEPT ![p] = elapsed[p]]
    /\ UNCHANGED <<serverPy, mgrVars, envVars, pc, kind, cmgr, elapsed, attempt,
                   readyPolls, latePolls, trail, opVars, ret>>

\* the python server has loaded and answers "ready"
ServerUp(m) ==
    /\ Quiet
    /\ container[m] = "running"
    /\ server[m] = "starting"
    /\ server' = [server EXCEPT ![m] = "ready"]
    /\ UNCHANGED <<serverPy, mgrVars, container, listenPort, scriptFile, pc, kind, cmgr,
                   ctxDone, waitVars, opVars, ret>>

\* the python server dies
ServerCrash(m) ==
    /\ Quiet
    /\ server[m] # "down"
    /\ server' = [server EXCEPT ![m] = "down"]
    /\ listenPort' = [listenPort EXCEPT ![m] = 0]
    /\ UNCHANGED <<serverPy, mgrVars, container, scriptFile, pc, kind, cmgr,
                   ctxDone, waitVars, opVars, ret>>

---------------------------------------------------------------------------
(* The facades: the request they build and the result they return *)

EngineNewMM == "newmm"
EngineLongest == "longest"
EngineRoyin == "royin"
EngineThaig2p == "thaig2p"
EngineSyllableHanSolo == "han_solo"

\* the facades that take an engine, and those that return Token objects
EngineKinds == {"Tokenize", "Romanize", "Transliterate", "SyllableTokenize"}
TokenKinds == {"Tokenize", "Analyze"}
FacadeKinds == EngineKinds \cup TokenKinds

\* what a caller may put into the options' Engine
Engines == {"", EngineNewMM, EngineLongest, EngineRoyin, EngineThaig2p,
            EngineSyllableHanSolo}

\* runes: space, full stop, digit zero, U+0DFF and U+0E80 (the neighbours of
\* the Thai block, Sinhala and Lao), and the block's first and last
Codepoints == {32, 46, 48, ThaiFirst - 1, ThaiFirst, ThaiLast, ThaiLast + 1}

\* a string, as the runes "for _, r := range text" goes through
Texts == UNION {[1..n -> Codepoints] : n \in 0..MaxTextLen}

\* the tokens of a response
TokenLists == UNION {[1..n -> Texts] : n \in 0..MaxTokens}

\* a facade that substitutes newmm whatever the operation
DefaultEngine_NewMM(k) == EngineNewMM

\* "if req.Engine == "" { req.Engine = ... }" of the facade k
DefaultEngine(k) ==
    CASE k = "Tokenize"         -> EngineNewMM
      [] k = "Romanize"         -> EngineRoyin
      [] k = "Transliterate"    -> EngineThaig2p
      [] k = "SyllableTokenize" -> EngineSyllableHanSolo

\* the Engine of the request the facade k builds from options with Engine e;
\* AnalyzeWithOptions passes its engines on as they are
RequestEngine(k, e) ==
    IF k \in EngineKinds /\ e = "" THEN DefaultEngine(k) ELSE e

\* the loop of isThaiText from rune i on
RECURSIVE ThaiFrom(_, _)
ThaiFrom(text, i) ==
    IF i > Len(text) THEN FALSE
    ELSE IF text[i] >= ThaiFirst /\ text[i] <= ThaiLast THEN TRUE
    ELSE ThaiFrom(text, i + 1)

\* an isThaiText that looks at the first rune only
isThaiText_FirstRune(text) ==
    Len(text) > 0 /\ text[1] >= ThaiFirst /\ text[1] <= ThaiLast

isThaiText(text) == ThaiFrom(text, 1)

\* the romanized forms of a response's tokens
Romanizations == {"sa", "wat"}
RomanizedLists == UNION {[1..n -> Romanizations] : n \in 0..MaxTokens}

\* a []string: nil or not, and its elements
Slice(elems) == [nil |-> FALSE, elems |-> elems]
NilSlice == [nil |-> TRUE, elems |-> <<>>]

\* what a caller may put into AnalyzeOptions.Features; the last is what
\* AnalyzeText and TokenizeAndRomanize put there
FeatureOpts == {NilSlice, Slice(<<>>), Slice(<<"tokenize">>),
                Slice(<<"transliterate", "tokenize">>),
                Slice(<<"tokenize", "romanize">>)}

\* an analyze facade that puts in the default features for a nil list only
RequestFeatures_NilOnly(f) ==
    IF f.nil THEN Slice(<<"tokenize", "romanize">>) ELSE f

\* "if len(req.Features) == 0 { req.Features = []string{"tokenize", "romanize"} }"
RequestFeatures(f) ==
    IF Len(f.elems) = 0 THEN Slice(<<"tokenize", "romanize">>) ELSE f

\* a zip that stops one token early
Romanization_OneShort(rom, i) ==
    IF Len(rom) > i THEN rom[i] ELSE ""

\* the Romanization of the i-th token (counted from 1; the code's index is
\* i - 1): "if len(resp.Data.RomanizedTokens) > i { t.Romanization = ... }"
Romanization(rom, i) ==
    IF Len(rom) > i - 1 THEN rom[i] ELSE ""

\* the Token objects the facade k makes of the raw tokens and, for analyze,
\* of the romanized tokens rom; AnalyzeWithOptions leaves Tokens nil when
\* there are no raw tokens
Tokens(k, raw, rom) ==
    IF k \in TokenKinds
    THEN [i \in 1..Len(raw) |->
             [Surface |-> raw[i],
              IsLexical |-> isThaiText(raw[i]),
              Romanization |-> IF k = "Analyze" THEN Romanization(rom, i) ELSE ""]]
    ELSE <<>>

\* no facade call under way
NoFacade == [stage |-> "none", k |-> "none", optEngine |-> "", reqEngine |-> "",
             raw |-> <<>>, resEngine |-> "", resTokens |-> <<>>,
             optFeatures |-> NilSlice, reqFeatures |-> NilSlice,
             romanized |-> <<>>, resFeatures |-> NilSlice]

\* the facade k is called with options whose Engine is e; IsReady() is true
FacadeCalled(k, e) == [NoFacade EXCEPT !.stage = "called", !.k = k, !.optEngine = e]

\* AnalyzeWithOptions is called with options whose Features are f
AnalyzeCalled(f) == [FacadeCalled("Analyze", "") EXCEPT !.optFeatures = f]

\* the request is prepared and handed to the client
FacadePrepare ==
    /\ facade.stage = "called"
    /\ facade' = [facade EXCEPT !.stage = "sent",
                                !.reqEngine = RequestEngine(facade.k, facade.optEngine),
                                !.reqFeatures = IF facade.k = "Analyze"
                                                THEN RequestFeatures(facade.optFeatures)
                                                ELSE @]

\* the client returns a response with the tokens raw and, for analyze, the
\* romanized tokens rom; the result is built
FacadeResultBuilt ==
    /\ facade.stage = "sent"
    /\ \E raw \in (IF facade.k \in TokenKinds THEN TokenLists ELSE {<<>>}),
          rom \in (IF facade.k = "Analyze" THEN RomanizedLists ELSE {<<>>}) :
          facade' = [facade EXCEPT !.stage = "ok",
                                   !.raw = raw,
                                   !.romanized = rom,
                                   !.resEngine = IF facade.k \in EngineKinds
                                                 THEN facade.reqEngine ELSE "",
                                   !.resFeatures = facade.reqFeatures,
                                   !.resTokens = Tokens(facade.k, raw, rom)]

\* the client returns an error; the facade returns nil and the wrapped error
FacadeFailed ==
    /\ facade.stage = "sent"
    /\ facade' = [facade EXCEPT !.stage = "failed"]

\* the rest of the program, which a facade's request and result do not touch
progVars == <<serverPy, mgrVars, envVars, pc, kind, cmgr, ctxDone, waitVars, opVars,
              ret, pkgVars>>

---------------------------------------------------------------------------
(* Specifications *)

\* the steps of the calls of goroutines P
Steps(P) ==
    \/ \E p \in P : Return(p)
    \/ \E p \in P : DockerInit(p)
    \/ \E p \in P : DockerRecreate(p)
    \/ \E p \in P : SSLock(p)
    \/ \E p \in P : SSGetClient(p)
    \/ \E p \in P : CopyRender(p)
    \/ \E p \in P : CopyMkdir(p)
    \/ \E p \in P : CopyWrite(p)
    \/ \E p \in P : CopyChmod(p)
    \/ \E p \in P : SSHealth(p)
    \/ \E p \in P : SSExecCreate(p)
    \/ \E p \in P : SSExecStart(p)
    \/ \E p \in P : WaitCheck(p)
    \/ \E p \in P : WaitSelect(p)
    \/ \E p \in P : WaitPoll(p)
    \/ \E p \in P : StopLock(p)
    \/ \E p \in P : StopDocker(p)
    \/ \E p \in P : CloseLock(p)
    \/ \E p \in P : CloseDocker(p)
    \/ \E p \in P : RLock(p)
    \/ \E p \in P : RRead(p)

\* the lifecycle calls of goroutines P on managers M, the OS handing out ports Q
Lifecycle(P, M, Q) ==
    \/ \E p \in P, m \in M, port \in Q : NewManager(p, m, port)
    \/ \E p \in P, m \in M, k \in LifecycleKinds : StartCall(p, k, m)
    \/ Steps(P)

\* the facade operations K called by goroutines P on managers M, the service
\* answering POSTs out of R
Operations(P, M, K, R) ==
    \/ \E p \in P, m \in M, k \in K : StartCall(p, k, m)
    \/ \E p \in P : OpHTTP(p, R)

\* the package-level functions K called by goroutines P, the OS handing out
\* ports Q
Package(P, K, Q) ==
    \/ \E p \in P, k \in K : PkgCall(p, k)
    \/ \E p \in P : PkgLock(p)
    \/ \E p \in P : PkgCheck(p)
    \/ \E p \in P, m \in MgrIds, port \in Q : PkgNew(p, m, port)
    \/ \E p \in P : PkgCloseLock(p)
    \/ \E p \in P : PkgCloseMgr(p)
    \/ \E p \in P : PkgCloseDocker(p)

\* the python servers of managers M
Servers(M) ==
    \/ \E m \in M : ServerUp(m)
    \/ \E m \in M : ServerCrash(m)

\* the calls of goroutines P make progress: the goroutine is scheduled, and
\* the docker handle, the execs and the HTTP requests return
Progress(P) == WF_vars(Lifecycle(P, {1}, {1}) /\ UNCHANGED <<pkgVars, facade>>)

\* goroutines calling one manager concurrently, the asset current, no caller
\* cancelling
Init == InitOver({CurrentScript}) /\ facade = NoFacade
Next ==
    /\ \/ Lifecycle(Procs, {1}, {1})
       \/ Operations(Procs, {1}, FewOpKinds, FewPostResponses)
       \/ Servers({1})
    /\ UNCHANGED <<pkgVars, facade>>
Spec == Init /\ [][Next]_vars

\* one goroutine calling one manager, one call after the other: every
\* operation, every response; the asset may be stale, the caller may cancel
InitSeq == InitOver(EmbeddedScripts) /\ facade = NoFacade
NextSeq ==
    /\ \/ Lifecycle({1}, {1}, {1})
       \/ Operations({1}, {1}, OpKinds, PostResponses)
       \/ Servers({1})
       \/ Cancel(1)
    /\ UNCHANGED <<pkgVars, facade>>
SpecSeq == InitSeq /\ [][NextSeq]_vars

\* the same, the goroutine making progress
SpecSeqFair == SpecSeq /\ Progress({1})

\* goroutines calling the package-level functions concurrently; the servers
\* stay up once they are
NextPkg ==
    /\ \/ Package(Procs, FewPkgKinds, Ports)
       \/ /\ \/ Steps(Procs)
             \/ \E p \in Procs : OpHTTP(p, FewPostResponses)
             \/ \E m \in MgrIds : ServerUp(m)
          /\ UNCHANGED pkgVars
    /\ UNCHANGED facade
SpecPkg == Init /\ [][NextPkg]_vars

\* one goroutine constructing and running several managers
NextPorts ==
    /\ \/ Lifecycle({1}, MgrIds, Ports)
       \/ Servers(MgrIds)
    /\ UNCHANGED <<pkgVars, facade>>
SpecPorts == Init /\ [][NextPorts]_vars

\* package-level and manager-level calls interleaved: goroutine 1 calls the
\* package-level Init and Close (the design assumes a single initializing
\* caller), the others the package-level Close, and all of them Stop and
\* IsReady on the first manager constructed; the OS hands out one port
NextMix ==
    /\ \/ Package({1}, {"Init", "Close"}, {1})
       \/ \E p \in Procs \ {1} : PkgCall(p, "Close")
       \/ \E p \in Procs \ {1} : PkgCloseLock(p)
       \/ \E p \in Procs \ {1} : PkgCloseMgr(p)
       \/ \E p \in Procs \ {1} : PkgCloseDocker(p)
       \/ /\ \/ \E p \in Procs, k \in {"Stop", "IsReady"} : StartCall(p, k, 1)
             \/ Steps(Procs)
             \/ \E m \in MgrIds : ServerUp(m)
          /\ UNCHANGED pkgVars
    /\ UNCHANGED facade
SpecMix == Init /\ [][NextMix]_vars

\* the steps of the call of goroutine p
Runs(p) ==
    /\ \/ PkgLock(p)
       \/ PkgCheck(p)
       \/ \E m \in MgrIds : PkgNew(p, m, 1)
       \/ PkgCloseLock(p)
       \/ PkgCloseMgr(p)
       \/ PkgCloseDocker(p)
       \/ Steps({p}) /\ UNCHANGED pkgVars
    /\ UNCHANGED facade

\* every goroutine is scheduled, the docker, exec and HTTP calls return, and a
\* goroutine blocked in Lock or RLock is not passed over for ever when the
\* lock is free again and again (sync.Mutex's starvation mode, sync.RWMutex's
\* hand-over between writers and readers)
SpecMixFair == SpecMix /\ \A p \in Procs : SF_vars(Runs(p))

\* the facades called on a ready manager, one call at a time: every operation,
\* every engine option, every feature list of analyze, every response up to
\* the bounds
InitFacade ==
    /\ InitOver({CurrentScript})
    /\ facade \in {FacadeCalled(k, e) : k \in EngineKinds, e \in Engines}
                  \cup {AnalyzeCalled(f) : f \in FeatureOpts}
NextFacade ==
    /\ \/ FacadePrepare
       \/ FacadeResultBuilt
       \/ FacadeFailed
    /\ UNCHANGED progVars
SpecFacade == InitFacade /\ [][NextFacade]_vars

---------------------------------------------------------------------------
(* Claims *)

InitKinds == {"Init", "InitRecreate"}
Returned(p) == pc[p] = "done"

\* C1: IsReady() is false before an Init/InitRecreate has returned success and
\* after a Stop or Close has returned, until a later Init/InitRecreate
\* succeeds: the flag is true, and IsReady() answers true, only while the
\* last lifecycle call to have returned is a successful Init/InitRecreate.
C1_ReadyOnlyAfterInit ==
    /\ \A m \in MgrIds : serviceReady[m] => okSince[m]
    /\ \A p \in Procs :
          Returned(p) /\ kind[p] = "IsReady" /\ ret[p].val = "true" => okSince[cmgr[p]]

\* IsReady() answers false on a manager whose container Stop has taken down
C1_Witness ==
    \E p \in Procs :
        /\ Returned(p) /\ kind[p] = "IsReady" /\ ret[p].val = "false"
        /\ container[cmgr[p]] = "stopped"

\* C2: a facade operation whose readiness check finds the flag false returns
\* the "service not ready" error and issues no HTTP request; a request is
\* issued only by a call whose check found the flag true.
C2_NotReadyNoRequest ==
    \A p \in Procs :
        kind[p] \in OpKinds =>
            /\ rdy[p] = "false" =>
                  /\ Returned(p)
                  /\ ret[p] = [err |-> ErrNotReady, val |-> "none"]
                  /\ reqs[p] = 0 /\ resp[p] = NoResp
            /\ reqs[p] > 0 => rdy[p] = "true"
            /\ pc[p] = "op_http" => rdy[p] = "true"

\* an operation has been turned away on a manager that was constructed only
C2_Witness ==
    \E p \in Procs :
        /\ Returned(p) /\ kind[p] \in PostKinds /\ ret[p].err = ErrNotReady
        /\ reqs[p] = 0 /\ ~serviceReady[cmgr[p]]

\* C3: a call made while the flag is false never waits: whenever a goroutine
\* is about to read the flag and the flag is false, nobody holds the lock
\* against it.
C3_NoImplicitWait ==
    \A p \in Procs :
        pc[p] = "rlock" /\ ~serviceReady[cmgr[p]] => muWriter[cmgr[p]] = 0

TimeoutError ==
    WrapW("failed to start Python service", WrapW("service failed to start", ErrTimeout))

\* the call of p has gone through waitForService and returned
WaitReturned(p) == Returned(p) /\ kind[p] \in InitKinds /\ attempt[p] > 0
InWait(p) == pc[p] \in {"wait_check", "wait_select", "wait_poll"}

\* The wait goes on only while no poll has answered "ready",
\* and it ends in success at the first poll that does (and only so), the flag
\* being true from that step on.
C4_FirstReadyPoll ==
    \A p \in Procs :
        /\ InWait(p) => readyPolls[p] = 0
        /\ WaitReturned(p) =>
              /\ readyPolls[p] <= 1
              /\ readyPolls[p] = 1 <=> IsNil(ret[p].err)
              /\ IsNil(ret[p].err) => serviceReady[cmgr[p]]

\* C4: Init returns success exactly at the first poll that answers "ready",
\* and if no poll answers "ready" before the maximum wait has elapsed (and the
\* caller has not cancelled), Init returns the timeout error.
C4_TimeoutAtDeadline ==
    /\ C4_FirstReadyPoll
    /\ \A p \in Procs :
          /\ WaitReturned(p) /\ ~ctxDone[p]
          /\ ~(readyPolls[p] > 0 /\ elapsed[p] < maxServiceWaitTime)
          => ret[p].err = TimeoutError

\* C5: the flag goes from false to true only in the step in which an
\* Init/InitRecreate on that manager returns nil, and from true to false only
\* in the flag-clearing step of a Stop or Close on that manager; no other step,
\* and so no facade operation, changes it.
C5_FlagStep ==
    \A m \in MgrIds :
        /\ ~serviceReady[m] /\ serviceReady'[m] =>
              \E p \in Procs : /\ kind[p] \in InitKinds /\ cmgr[p] = m
                               /\ pc[p] \in {"ss_health", "wait_poll"}
                               /\ pc'[p] = "done" /\ IsNil(ret'[p].err)
        /\ serviceReady[m] /\ ~serviceReady'[m] =>
              \E p \in Procs : /\ kind[p] \in {"Stop", "Close"} /\ cmgr[p] = m
                               /\ pc[p] \in {"stop_lock", "close_lock"}
                               /\ pc'[p] \in {"stop_docker", "close_docker"}
C5_Lifecycle == [][C5_FlagStep]_vars

\* an operation's request has failed and the manager is still ready
C5_Witness ==
    \E p \in Procs :
        /\ Returned(p) /\ kind[p] \in OpKinds /\ reqs[p] = 1 /\ ~IsNil(ret[p].err)
        /\ serviceReady[cmgr[p]]

\* C6: a Stop or Close that is about to hand the teardown to the container
\* handle has written false to the flag and released the lock: the flag is
\* false, unless another goroutine has written it since.
C6_ClearedBeforeTeardown ==
    \A p \in Procs :
        pc[p] \in {"stop_docker", "close_docker"} =>
            /\ muWriter[cmgr[p]] # p
            /\ serviceReady[cmgr[p]] => lastWriter[cmgr[p]] # p

\* Close is about to tear down a service that is up, the flag already false
C6_Witness ==
    \E p \in Procs :
        /\ pc[p] = "close_docker" /\ ~serviceReady[cmgr[p]] /\ okSince[cmgr[p]]
        /\ server[cmgr[p]] = "ready"

\* C7: the ports of the live managers are pairwise distinct.
C7_DistinctPorts ==
    \A m, o \in MgrIds :
        m # o /\ mstate[m] = "live" /\ mstate[o] = "live" => servicePort[m] # servicePort[o]

\* C8: with an embedded script that lacks the placeholder, Init fails, and
\* fails before anything is written into the container and before the server
\* is launched.
C8_StaleScriptFailsInit ==
    ~(\E i \in 1..Len(serverPy) : serverPy[i] = Placeholder) =>
        /\ \A m \in MgrIds : scriptFile[m] = <<>> /\ server[m] = "down"
        /\ \A p \in Procs : Returned(p) /\ kind[p] \in InitKinds => ~IsNil(ret[p].err)

\* C9: when the response envelope carries an error object, the error the facade
\* operation returns has that object in its chain, code and message as sent,
\* and its text ends with them.
C9_ServiceErrorIntact ==
    \A p \in Procs :
        Returned(p) /\ kind[p] \in PostKinds /\ resp[p].t = "envelope" /\ resp[p].err.present
        => /\ ErrorsAs(ret[p].err) = resp[p].err
           /\ ErrorText(ret[p].err) = <<FailMsg(kind[p]), resp[p].err.code, resp[p].err.message>>

\* Tokenize has returned the service's E1 / "bad input"
C9_Witness ==
    \E p \in Procs :
        /\ Returned(p) /\ kind[p] = "Tokenize"
        /\ resp[p].err = SvcErr("E1", "bad input")
        /\ ErrorsAs(ret[p].err) = SvcErr("E1", "bad input")

\* C10: a POST operation decides on the envelope: with an error field it
\* returns that error, and data is neither unmarshalled nor returned; without
\* one, data is unmarshalled and is the payload returned; never both a payload
\* and an error.
C10_EnvelopeDecides ==
    \A p \in Procs :
        Returned(p) /\ kind[p] \in PostKinds /\ resp[p].t = "envelope" =>
            /\ resp[p].err.present =>
                  /\ ~unmarshalled[p] /\ ret[p].val = "none"
                  /\ ErrorsAs(ret[p].err) = resp[p].err
            /\ ~resp[p].err.present =>
                  /\ unmarshalled[p]
                  /\ resp[p].data \in {"ok", "null"} =>
                        IsNil(ret[p].err) /\ ret[p].val = DataValue(resp[p].data)
                  /\ resp[p].data \notin {"ok", "null"} =>
                        ~IsNil(ret[p].err) /\ ret[p].val = "none"
            /\ ~(ret[p].val # "none" /\ ~IsNil(ret[p].err))

\* an envelope with both an error and data has come back: the error is
\* returned, the data is not
C10_Witness ==
    \E p \in Procs :
        /\ Returned(p) /\ kind[p] \in PostKinds
        /\ resp[p].t = "envelope" /\ resp[p].err.present /\ resp[p].data = "ok"
        /\ ret[p].val = "none" /\ ~unmarshalled[p]

CtxError ==
    WrapW("failed to start Python service", WrapW("service failed to start", ErrCtx))

\* the call of p is an Init/InitRecreate whose readiness wait ended in an error
WaitFailed(p) ==
    /\ Returned(p) /\ kind[p] \in InitKinds
    /\ Len(ret[p].err.chain) >= 2 /\ ret[p].err.chain[2] = "service failed to start"

\* the error a failed wait reports: the context's when the context was
\* cancelled before the deadline, the timeout error when the maximum wait
\* elapsed without cancellation, and never another
WaitErrorTells(p) ==
    /\ ret[p].err \in {TimeoutError, CtxError}
    /\ ret[p].err = CtxError => ctxDone[p]
    /\ ctxDone[p] /\ cancelAt[p] < maxServiceWaitTime => ret[p].err = CtxError
    /\ ~ctxDone[p] => ret[p].err = TimeoutError /\ elapsed[p] >= maxServiceWaitTime

\* C11: a readiness wait that fails reports the cancellation error when the
\* context was cancelled (before the deadline) and the timeout error when the
\* maximum wait elapsed without cancellation, and in both cases the readiness
\* flag is false when Init returns.
C11_WaitFailureKinds ==
    \A p \in Procs : WaitFailed(p) => WaitErrorTells(p) /\ ~serviceReady[cmgr[p]]

\* C12, while the call runs: once the context is cancelled in the wait, at
\* most one health poll ends after the cancellation (the one in flight), and
\* the call returns an error at the moment of the cancellation
CancelledWait(p) ==
    /\ InWait(p) /\ ctxDone[p] => latePolls[p] <= 1
    /\ Returned(p) /\ kind[p] \in InitKinds /\ ctxDone[p] =>
          /\ ~IsNil(ret[p].err)
          /\ latePolls[p] <= 1
          /\ attempt[p] > 0 => elapsed[p] = cancelAt[p]

\* C12, step by step: the step in which a cancelled Init returns leaves the flag alone
CancelledReturn(p) ==
    pc[p] # "done" /\ pc'[p] = "done" /\ kind[p] \in InitKinds /\ ctxDone[p]
    => serviceReady' = serviceReady

\* C12: when the context is cancelled while Init is in its readiness wait,
\* Init eventually returns, without waiting for the maximum wait; at most one
\* health poll ends after the cancellation; and the flag is not set.
C12_CancelEndsWait ==
    /\ [](\A p \in Procs : CancelledWait(p))
    /\ [][\A p \in Procs : CancelledReturn(p)]_vars
    /\ \A p \in Procs : (InWait(p) /\ ctxDone[p]) ~> Returned(p)

\* Init was cancelled during its second poll and has returned the context's error
C12_Witness ==
    \E p \in Procs :
        /\ Returned(p) /\ ret[p].err = CtxError
        /\ attempt[p] = 2 /\ latePolls[p] = 1 /\ elapsed[p] < maxServiceWaitTime

\* goroutine p leaves getOrCreateDefaultManager with a manager in this step
Obtains(p) ==
    /\ pc[p] \in {"pkg_check", "pkg_new"}
    /\ pc'[p] \notin {"pkg_check", "pkg_new", "done"}

\* the default manager is replaced only when there is none or it is closed, and
\* a call leaving getOrCreateDefaultManager holds the default manager, open
DefaultStable ==
    /\ instance' # instance => (instance = 0 \/ instanceClosed) /\ ~instanceClosed'
    /\ \A p \in Procs : Obtains(p) => cmgr'[p] = instance' /\ ~instanceClosed'

\* C13: from one package-level Close to the next, the default manager is
\* constructed at most once and never replaced while it is open, and every
\* package-level call obtains that manager, also with calls running
\* concurrently.
C13_OneDefaultManager ==
    /\ [](built <= 1)
    /\ [][DefaultStable]_vars

\* after a package-level Close, a Tokenize has succeeded on the second default
\* manager while another goroutine's Init is on the same manager
C13_Witness ==
    \E p, q \in Procs :
        /\ p # q /\ instance = 2 /\ ~instanceClosed /\ built = 1
        /\ cmgr[p] = 2 /\ kind[p] = "Init" /\ pc[p] \notin {"idle", "done", "pkg_lock"}
        /\ cmgr[q] = 2 /\ kind[q] = "Tokenize" /\ Returned(q) /\ IsNil(ret[q].err)

\* the steps of an Init that finds the service running
ShortStartup == <<"docker", "mkdir", "write", "chmod", "health", "ready">>

\* startService's health check of goroutine p is answered "ready" in this step
HealthCheckReady(p) ==
    pc[p] = "ss_health" /\ pc'[p] # "ss_health" /\ readyPolls'[p] = readyPolls[p] + 1

\* C14: an Init/InitRecreate whose health check after the script copy is
\* answered "ready" returns nil at that point with the flag true, having
\* rewritten the script, launched no server process and made no poll.
C14_InitIdempotent ==
    [][\A p \in Procs : HealthCheckReady(p) =>
          /\ pc'[p] = "done" /\ IsNil(ret'[p].err) /\ serviceReady'[cmgr[p]]
          /\ trail'[p] = ShortStartup /\ attempt'[p] = 0
          /\ scriptFile'[cmgr[p]] = ReplaceAll(serverPy, servicePort[cmgr[p]])
          /\ server' = server]_vars

\* a second Init, the service running since the first, has returned nil
C14_Witness ==
    \E p \in Procs :
        /\ Returned(p) /\ kind[p] = "Init" /\ IsNil(ret[p].err)
        /\ trail[p] = ShortStartup /\ server[cmgr[p]] = "ready"

\* how many times the current call of p has launched the server
Launches(p) == Cardinality({i \in 1..Len(trail[p]) : trail[p][i] = "execstart"})

\* the response is a failure: no answer, an unparsable body, or a service error
FailedResponse(r) ==
    r.t \in {"transport", "badjson"} \/ (r.t = "envelope" /\ r.err.present)

\* C15: a facade operation sends at most one HTTP request, and when that
\* request fails the call returns the failure, no second request made; an
\* Init launches the server at most once, and when its readiness wait fails it
\* returns the error with the server launched that one time.
C15_NoRetry ==
    \A p \in Procs :
        /\ kind[p] \in OpKinds =>
              /\ reqs[p] <= 1
              /\ reqs[p] = 1 => Returned(p)
              /\ Returned(p) /\ reqs[p] = 1 /\ FailedResponse(resp[p]) =>
                    ~IsNil(ret[p].err) /\ ret[p].val = "none"
        /\ kind[p] \in InitKinds => Launches(p) <= 1
        /\ WaitFailed(p) => Launches(p) = 1

\* Romanize has returned the failure of its one request, an unparsable body
C15_Witness ==
    \E p \in Procs :
        /\ Returned(p) /\ kind[p] = "Romanize" /\ reqs[p] = 1
        /\ resp[p].t = "badjson" /\ ~IsNil(ret[p].err)

\* the container of manager m is started in this step: it was not running, or
\* InitRecreate has destroyed and rebuilt it
Started(m) ==
    /\ container'[m] = "running"
    /\ \/ container[m] # "running"
       \/ \E p \in Procs : cmgr[p] = m /\ pc[p] = "recreate_docker" /\ pc'[p] = "ss_lock"

\* a health request of an Init on manager m is answered "ready" in this step
Reports(m) ==
    \E p \in Procs : cmgr[p] = m /\ readyPolls'[p] = readyPolls[p] + 1

\* C16: the flag is true only if the sidecar has reported "ready" since the
\* container was last started: a step that starts the container leaves the flag
\* false, and the flag becomes true only in a step in which a health request
\* is answered "ready".
C16_ReadySinceStart ==
    [][\A m \in MgrIds :
          /\ Started(m) => ~serviceReady'[m]
          /\ ~serviceReady[m] /\ serviceReady'[m] => Reports(m)]_vars

\* the facade operation of goroutine p sends its HTTP request in this step
Sends(p) == kind[p] \in OpKinds /\ reqs'[p] = reqs[p] + 1

\* C17: once Stop or Close has cleared the flag, no facade operation sends its
\* request: whenever an operation sends its HTTP request, the flag of its
\* manager is true (a call that read the flag before it was cleared has sent
\* its request by then, any other call fails with the not-ready error).
C17_NoRequestAfterClear ==
    [][\A p \in Procs : Sends(p) => serviceReady[cmgr[p]]]_vars

\* goroutine p writes the flag of manager m in this step: startService's
\* assignment on success, or the assignment of Stop / Close
WritesFlag(p, m) ==
    /\ cmgr[p] = m
    /\ \/ /\ pc[p] \in {"ss_health", "wait_poll"}
          /\ pc'[p] = "done" /\ IsNil(ret'[p].err)
       \/ /\ pc[p] \in {"stop_lock", "close_lock", "pkg_close_mgr"}
          /\ pc'[p] # pc[p]

\* goroutine p is inside IsReady, about to read the flag of manager m
ReadsFlag(p, m) == cmgr[p] = m /\ pc[p] = "rread"

\* C18: every access to the flag is made under the manager's read/write lock.
\* A goroutine reading the flag holds the lock shared, and no goroutine holds
\* it exclusively then; a step that writes the flag is taken by a goroutine
\* that holds the lock exclusively (or takes it free in that step), with no
\* reader and no other writer inside; the flag changes in no other step.
\* Several IsReady reads may hold the lock together.
C18_FlagUnderLock ==
    /\ [](\A m \in MgrIds :
            /\ muWriter[m] # 0 => muReaders[m] = {}
            /\ \A p \in Procs : ReadsFlag(p, m) => p \in muReaders[m] /\ muWriter[m] = 0)
    /\ [][\A m \in MgrIds :
            /\ \A p \in Procs :
                  WritesFlag(p, m) =>
                      /\ muWriter[m] \in {0, p} /\ muReaders[m] = {}
                      /\ \A q \in Procs \ {p} : ~ReadsFlag(q, m) /\ ~WritesFlag(q, m)
            /\ serviceReady'[m] # serviceReady[m] => \E p \in Procs : WritesFlag(p, m)]_vars

\* two IsReady reads of a ready manager overlap
C18_Witness ==
    \E m \in MgrIds :
        /\ muReaders[m] = Procs /\ Cardinality(Procs) > 1 /\ serviceReady[m]
        /\ \A p \in Procs : ReadsFlag(p, m)

\* the default engines as documented
DocumentedDefault(k) ==
    CASE k = "Tokenize"         -> "newmm"
      [] k = "Romanize"         -> "royin"
      [] k = "Transliterate"    -> "thaig2p"
      [] k = "SyllableTokenize" -> "han_solo"

\* C19: for tokenize, romanize, transliterate and syllable-tokenize, the
\* request's engine is the documented default when the options' engine is
\* empty and the options' engine otherwise, and the result's Engine is the
\* engine of the request.
C19_DefaultEngine ==
    facade.k \in EngineKinds =>
        /\ facade.stage \in {"sent", "ok", "failed"} =>
              facade.reqEngine = IF facade.optEngine = ""
                                 THEN DocumentedDefault(facade.k)
                                 ELSE facade.optEngine
        /\ facade.stage = "ok" => facade.resEngine = facade.reqEngine

\* syllable-tokenize called with an empty engine has returned han_solo
C19_Witness ==
    /\ facade.stage = "ok" /\ facade.k = "SyllableTokenize" /\ facade.optEngine = ""
    /\ facade.resEngine = "han_solo"

\* the text contains a codepoint of U+0E00..U+0E7F
HasThai(text) == \E i \in DOMAIN text : text[i] \in 3584..3711

\* C20: every Token returned by tokenize and analyze has IsLexical true if
\* and only if its text contains at least one codepoint in U+0E00..U+0E7F; the
\* empty text and texts of digits, punctuation, whitespace or foreign script
\* have it false.
C20_LexicalIffThai ==
    facade.stage = "ok" /\ facade.k \in TokenKinds =>
        \A i \in DOMAIN facade.resTokens :
            /\ facade.resTokens[i].Surface = facade.raw[i]
            /\ facade.resTokens[i].IsLexical <=> HasThai(facade.resTokens[i].Surface)

\* analyze has returned a token whose second rune is U+0E7F, lexical, and an
\* empty token, not lexical
C20_Witness ==
    /\ facade.stage = "ok" /\ facade.k = "Analyze"
    /\ \E i, j \in DOMAIN facade.resTokens :
          /\ facade.resTokens[i].Surface = <<48, 3711>> /\ facade.resTokens[i].IsLexical
          /\ facade.resTokens[j].Surface = <<>> /\ ~facade.resTokens[j].IsLexical

\* C21: analyze returns one Token per raw token, in order; the i-th Token has
\* the i-th raw token as Surface and the i-th romanized part as Romanization
\* when there is one, the empty string when the romanized list is shorter, and
\* no error is returned then; romanized parts beyond the raw tokens are in no
\* Token.
C21_ZipByIndex ==
    facade.stage = "ok" /\ facade.k = "Analyze" =>
        /\ Len(facade.resTokens) = Len(facade.raw)
        /\ \A i \in 1..Len(facade.raw) :
              /\ facade.resTokens[i].Surface = facade.raw[i]
              /\ facade.resTokens[i].Romanization =
                    IF i \in DOMAIN facade.romanized THEN facade.romanized[i] ELSE ""

\* analyze has returned two tokens for a response with one romanized part
C21_Witness ==
    /\ facade.stage = "ok" /\ facade.k = "Analyze"
    /\ Len(facade.raw) = 2 /\ Len(facade.romanized) = 1
    /\ facade.resTokens[1].Romanization = "wat" /\ facade.resTokens[2].Romanization = ""

\* C22: analyze sends the features [tokenize, romanize] when the caller gives
\* none (a nil or an empty list) and the caller's list otherwise, and the
\* result's Features are the features sent.
C22_DefaultFeatures ==
    facade.k = "Analyze" =>
        /\ facade.stage \in {"sent", "ok", "failed"} =>
              /\ facade.optFeatures.elems = <<>> =>
                    facade.reqFeatures.elems = <<"tokenize", "romanize">>
              /\ facade.optFeatures.elems # <<>> =>
                    facade.reqFeatures = facade.optFeatures
        /\ facade.stage = "ok" => facade.resFeatures = facade.reqFeatures

\* analyze called with an empty, non-nil feature list has returned the default
C22_Witness ==
    /\ facade.stage = "ok" /\ facade.k = "Analyze"
    /\ facade.optFeatures = Slice(<<>>)
    /\ facade.resFeatures.elems = <<"tokenize", "romanize">>

\* s is an initial part of t
IsPrefix(s, t) == Len(s) <= Len(t) /\ \A i \in 1..Len(s) : s[i] = t[i]

\* the startup steps in their order, with n readiness polls
StartupOrder(n) ==
    <<"docker", "mkdir", "write", "chmod", "health", "execcreate", "execstart">>
        \o [i \in 1..n |-> "poll"] \o <<"ready">>

\* the steps carried out by the call of p are an initial part of the order
InOrder(p) ==
    \/ IsPrefix(trail[p], ShortStartup)
    \/ \E n \in 1..Len(trail[p]) : IsPrefix(trail[p], StartupOrder(n))

Carried(p, step) == \E i \in DOMAIN trail[p] : trail[p][i] = step

\* C23: the startup steps of an Init/InitRecreate are carried out in the
\* order docker, mkdir, write, chmod, health check, exec create, exec start,
\* polls, flag; a call that returns an error has stopped before the flag, a
\* call that returns nil has set it; the server is launched only after the
\* script copy, the flag is set only after a health request answered ready.
C23_StartupOrder ==
    \A p \in Procs :
        kind[p] \in InitKinds =>
            /\ InOrder(p)
            /\ Carried(p, "execstart") =>
                  Carried(p, "mkdir") /\ Carried(p, "write") /\ Carried(p, "chmod")
            /\ Carried(p, "ready") => readyPolls[p] >= 1 /\ Returned(p)
            /\ Returned(p) => (IsNil(ret[p].err) <=> Carried(p, "ready"))

\* an Init has gone through every step, the second poll answering ready
C23_Witness ==
    \E p \in Procs :
        Returned(p) /\ kind[p] = "Init" /\ trail[p] = StartupOrder(2)

\* goroutine p, in an Init/InitRecreate, takes a step other than the return
\* of nil
InitStepNotSuccess(p) ==
    /\ kind[p] \in InitKinds /\ pc'[p] # pc[p] /\ pc[p] # "done"
    /\ ~(pc'[p] = "done" /\ IsNil(ret'[p].err))

\* C24: an Init/InitRecreate that returns an error has left the flag as it
\* was: no step of the call other than its return of nil changes the flag of
\* its manager, neither to true nor to false.
C24_FailedInitKeepsFlag ==
    [][\A p \in Procs :
          InitStepNotSuccess(p) => serviceReady'[cmgr[p]] = serviceReady[cmgr[p]]]_vars

\* an InitRecreate on a ready manager has failed in its readiness wait, and the
\* manager still reports ready
C24_Witness ==
    \E p \in Procs :
        /\ Returned(p) /\ kind[p] = "InitRecreate" /\ WaitFailed(p)
        /\ serviceReady[cmgr[p]]

\* the package-level call of goroutine p starts to use manager m in this step
TakesManager(p, m) == cmgr[p] = 0 /\ cmgr'[p] = m

\* a closed default manager is not used by a later package-level call
ClosedNotUsed ==
    \A p \in Procs, m \in MgrIds : TakesManager(p, m) => mstate'[m] # "closed"

\* the default manager is replaced by one just constructed, not ready
ReplacedByFresh ==
    instance' # instance =>
        /\ instance' \in MgrIds /\ mstate[instance'] = "none"
        /\ mstate'[instance'] = "live" /\ ~serviceReady'[instance']

\* a package-level Close finding no default manager returns nil and changes
\* nothing
CloseOfNothing ==
    \A p \in Procs :
        pc[p] = "pkg_close_lock" /\ pc'[p] # pc[p] /\ instance = 0 =>
            /\ pc'[p] = "done" /\ IsNil(ret'[p].err)
            /\ UNCHANGED <<mgrVars, envVars, pkgVars>>

\* C25: after a package-level Close the closed default manager is not used
\* again: every package-level call that takes up a manager takes one that is
\* not closed, the default manager is replaced by a fresh one, not ready, on
\* which an operation sends no request before an Init has succeeded, and a
\* Close that finds no default manager is a no-op returning nil.
C25_ClosedManagerNotReused ==
    /\ [][ClosedNotUsed /\ ReplacedByFresh /\ CloseOfNothing]_vars
    /\ [](\A p \in Procs : kind[p] \in OpKinds /\ reqs[p] >= 1 => lastWriter[cmgr[p]] # 0)

\* the construction of the default manager fails in this step of goroutine p
ConstructionFails(p) == pc[p] = "pkg_new" /\ pc'[p] = "done"

\* the error getOrCreateDefaultManager makes of NewManager's
ConstructionError(e) ==
    /\ Len(e.chain) = 3 /\ e.chain[1] = "failed to create default manager"
    /\ e.chain[2] \in {"failed to allocate port", "failed to create Docker manager"}

\* C26: when NewManager fails inside getOrCreateDefaultManager, instance and
\* instanceClosed stay as they were, the caller gets the error, and the mutex
\* is released; there is still no open default manager, and a call that finds
\* none attempts the construction.
C26_FailedConstruction ==
    [][\A p \in Procs :
          /\ ConstructionFails(p) =>
                /\ UNCHANGED <<instance, instanceClosed, mstate, servicePort>>
                /\ ConstructionError(ret'[p].err)
                /\ instanceMu' = 0
                /\ instance' = 0 \/ instanceClosed'
          /\ pc[p] = "pkg_check" /\ pc'[p] # pc[p] /\ (instance = 0 \/ instanceClosed) =>
                pc'[p] = "pkg_new"]_vars

\* after a Close, the construction of the next default manager has failed: the
\* closed one is still the instance, the mutex is free, another call waits for it
C26_Witness ==
    \E p, q \in Procs :
        /\ Returned(p) /\ kind[p] # "Close" /\ ConstructionError(ret[p].err)
        /\ instance = 1 /\ instanceClosed /\ mstate[2] = "none" /\ instanceMu = 0
        /\ pc[q] = "pkg_lock"

\* an Init, InitRecreate, Stop or Close on manager m is in progress
Lifecycling(m) ==
    \E p \in Procs :
        cmgr[p] = m /\ pc[p] # "idle" /\ kind[p] \in InitKinds \cup {"Stop", "Close"}

\* C27: when no Init, Stop or Close is in progress on a manager and its flag
\* is true, its container has not been stopped or closed since the flag was
\* set: the container is running.
C27_ReadyNotTornDown ==
    \A m \in MgrIds :
        ~Lifecycling(m) /\ serviceReady[m] => container[m] = "running"

\* where a call is while it runs startService's sequence
StartupPcs ==
    {"ss_getclient", "copy_render", "copy_mkdir", "copy_write", "copy_chmod",
     "ss_health", "ss_execcreate", "ss_execstart", "wait_check", "wait_select",
     "wait_poll"}

\* goroutine p is in the startup sequence of its Init/InitRecreate
InStartup(p) == kind[p] \in InitKinds /\ pc[p] \in StartupPcs

\* goroutine p launches the server in this step
LaunchStep(p) == pc[p] = "ss_execstart" /\ pc'[p] = "wait_check"

\* C28: two Init/InitRecreate calls on one manager are never both in the
\* startup sequence (script copy, health check, launch, polling): the one in
\* it holds the manager's lock, and the other enters only after it has
\* returned; a call whose health check is answered ready returns without
\* launching a server, and a server is launched only by a call none of whose
\* health requests has been answered ready.
C28_StartupExclusive ==
    /\ [](\A p \in Procs :
            InStartup(p) =>
                /\ muWriter[cmgr[p]] = p
                /\ \A q \in Procs \ {p} : cmgr[q] = cmgr[p] => ~InStartup(q))
    /\ [][\A p \in Procs :
            /\ HealthCheckReady(p) => pc'[p] = "done" /\ server' = server
            /\ LaunchStep(p) => readyPolls[p] = 0]_vars

\* one Init is polling for the server it has launched while an InitRecreate on
\* the same manager, its container rebuilt, waits for the lock
C28_Witness ==
    \E p, q \in Procs :
        /\ p # q /\ cmgr[p] = cmgr[q]
        /\ kind[p] = "Init" /\ pc[p] = "wait_poll" /\ Carried(p, "execstart")
        /\ kind[q] = "InitRecreate" /\ pc[q] = "ss_lock"

\* goroutine p holds the lock of some manager
HoldsManagerLock(p) ==
    \E m \in MgrIds : muWriter[m] = p \/ p \in muReaders[m]

\* goroutine p waits for the singleton mutex
WaitsForInstanceMu(p) == pc[p] \in {"pkg_lock", "pkg_close_lock"}

\* C29: package-level and manager-level calls do not deadlock. A goroutine
\* that waits for the singleton mutex or takes it holds no manager's lock (the
\* locks are taken in the order singleton mutex, manager lock), and every
\* call that has begun returns, the docker, exec and HTTP calls returning.
C29_NoDeadlock ==
    /\ [](\A p \in Procs : WaitsForInstanceMu(p) => ~HoldsManagerLock(p))
    /\ [][\A p \in Procs : instanceMu # p /\ instanceMu' = p => ~HoldsManagerLock(p)]_vars
    /\ \A p \in Procs : (pc[p] # "idle") ~> Returned(p)

\* a package-level Close holds the singleton mutex and waits for the lock of
\* the default manager, which a package-level Init holds in startService
C29_Witness ==
    \E p, q \in Procs :
        /\ p # q /\ instanceMu = p /\ pc[p] = "pkg_close_mgr"
        /\ cmgr[p] = instance /\ muWriter[instance] = q /\ InStartup(q)

====
